---- MODULE Spec2Model ----
(***************************************************************************)
(* Loan lifecycle engine of the EMI device-lock back office: loan setup,   *)
(* payment recording, operator lock control, the penalty sweep and the     *)
(* auto-lock sweep, acting on the clients and payments collections.        *)
(*                                                                         *)
(* The repository holds two builds of the HTTP handlers: the monolith      *)
(* backend/server.py and the refactored backend/routes/*.py.  The variable *)
(* impl says which build serves the requests of a behaviour.  The sweeps   *)
(* exist only in server.py and run against the same collections.           *)
(*                                                                         *)
(* Money is counted in cents, time in ticks (TicksPerDay ticks to a day,   *)
(* tick 0 = 2024-12-01T00:00).  Float arithmetic is modelled as exact      *)
(* rational arithmetic followed by the code's round(x, 2).                 *)
(***************************************************************************)
EXTENDS Integers, Sequences, FiniteSets, TLC

\* ----------------------------------------------------------------- bounds
TicksPerDay == 2          \* resolution of the clock
MaxPayments == 1          \* payments recorded in one behaviour of Spec
MaxPenaltySweeps == 2     \* penalty sweeps run in one behaviour of Spec

\* ------------------------------------------------------ program constants
DefaultLateFeeRate == 2   \* late_fee_rate = 2.0
DefaultGraceDays == 3     \* auto_lock_grace_days: int = 3
DaysPerFeeMonth == 30     \* months_overdue = days_overdue / 30

InitialCredits == 5       \* credits=5 if not is_super_admin else 0
NoDate == -1              \* None in a datetime field
NoClient == [absent |-> TRUE]

Clients == {"c1", "c2"}
Impls == {"routes", "server"}

\* ------------------------------------------------------------- arithmetic
Max(a, b) == IF a >= b THEN a ELSE b
Min(a, b) == IF a <= b THEN a ELSE b
Abs(a) == IF a < 0 THEN -a ELSE a

RECURSIVE Pow(_, _)
Pow(b, n) == IF n <= 0 THEN 1 ELSE b * Pow(b, n - 1)

RECURSIVE Gcd(_, _)
Gcd(a, b) == IF b = 0 THEN Abs(a) ELSE Gcd(b, a % Abs(b))

\* round(num/den) to the nearest integer, ties to even (Python 3 round)
RoundDiv(num, den) ==
  LET n == IF den < 0 THEN -num ELSE num
      d == Abs(den)
      q == n \div d
      r == n % d
  IN  IF 2 * r < d THEN q
      ELSE IF 2 * r > d THEN q + 1
      ELSE IF q % 2 = 0 THEN q ELSE q + 1

\* ---------------------------------------------------------------- calendar
\* days of the months from December 2024 on
MonthLen == <<31, 31, 28, 31, 30, 31, 30, 31, 31, 30, 31, 30>>
DaysIn(m) == MonthLen[(m % 12) + 1]

RECURSIVE MonthStart(_)
MonthStart(m) == IF m <= 0 THEN 0 ELSE MonthStart(m - 1) + DaysIn(m - 1)

RECURSIVE MonthFrom(_, _)
MonthFrom(day, m) == IF day < MonthStart(m + 1) THEN m ELSE MonthFrom(day, m + 1)
MonthOf(day) == MonthFrom(day, 0)

\* dt + relativedelta(months=1): same time of day, next month, the day of
\* the month clamped to the length of that month
AddOneMonth(t) ==
  LET day == t \div TicksPerDay
      tod == t % TicksPerDay
      m   == MonthOf(day)
      dom == day - MonthStart(m)
      d2  == Min(dom, DaysIn(m + 1) - 1)
  IN  (MonthStart(m + 1) + d2) * TicksPerDay + tod

\* (a - b).days of a timedelta: floor of the difference in days
DaysBetween(a, b) == (a - b) \div TicksPerDay

\* --------------------------------------------------- installment calculator
\* monthly_rate = (annual_rate / 12) / 100 as the fraction RateNum / RateDen
RateNum(rate) == rate \div Gcd(rate, 1200)
RateDen(rate) == 1200 \div Gcd(rate, 1200)

\* power - 1 = 0 in calculate_reducing_balance_emi: ZeroDivisionError
ReducingRaises(principal, rate, months) ==
  /\ rate # 0
  /\ Pow(RateNum(rate) + RateDen(rate), months) = Pow(RateDen(rate), months)

calculate_reducing_balance_emi(principal, rate, months) ==
  IF rate = 0
  THEN [monthly_emi    |-> RoundDiv(principal, months),
        total_amount   |-> principal,
        total_interest |-> 0]
  ELSE LET a   == RateNum(rate)
           b   == RateDen(rate)
           pw  == Pow(a + b, months)
           num == principal * a * pw
           den == b * (pw - Pow(b, months))
       IN  [monthly_emi    |-> RoundDiv(num, den),
            total_amount   |-> RoundDiv(num * months, den),
            total_interest |-> RoundDiv(num * months - principal * den, den)]

\* total_amount / months with months = 0: ZeroDivisionError
SimpleRaises(principal, rate, months) == months = 0

calculate_simple_interest_emi(principal, rate, months) ==
  LET num == 1200 * principal + principal * rate * months
  IN  [monthly_emi    |-> RoundDiv(num, 1200 * months),
       total_amount   |-> RoundDiv(num, 1200),
       total_interest |-> RoundDiv(principal * rate * months, 1200)]

\* round((principal_due * late_fee_percent * (days_overdue / 30)) / 100, 2)
calculate_late_fee(principal_due, late_fee_percent, days_overdue) ==
  IF days_overdue <= 0 THEN 0
  ELSE RoundDiv(principal_due * late_fee_percent * days_overdue,
                DaysPerFeeMonth * 100)

\* total_amount / months with months = 0: ZeroDivisionError
FlatRaises(principal, rate, months) == months = 0

calculate_flat_rate_emi(principal, rate, months) ==
  LET num == 1200 * principal + principal * rate * months
  IN  [monthly_emi    |-> RoundDiv(num, 1200 * months),
       total_amount   |-> RoundDiv(num, 1200),
       total_interest |-> RoundDiv(principal * rate * months, 1200)]

\* -------------------------------------------------------------------- state
VARIABLES
  impl,        \* which build serves the requests: "routes" or "server"
  now,         \* datetime.utcnow(), in ticks
  clients,     \* db.clients: client id -> document, or NoClient
  payments,    \* db.payments: the ledger, in insertion order
  unlocking,   \* client id -> record_payment calls (routes build) that have
               \* written the balances and not yet their is_locked write
  sweeps,      \* penalty sweeps run so far (history, bounds the model)
  fee_base,    \* history: client id -> late_fees_accumulated when the
               \* current next_payment_due was stored
  last,        \* history: the sweep run by the last step, or "none"
  reminders,   \* db.reminders, in insertion order
  failed,      \* history: the client whose item raised in the last sweep
               \* that was cut short, or "none"
  snapshot,    \* penalty sweep in flight: client id -> the document its
               \* find() returned and its loop has not reached yet, or NoClient
  pending,     \* reminder sweep in flight: sweeper -> the (client, type)
               \* pairs it found no reminder for and has not inserted yet
  admins,      \* db.admins: admin id -> document
  gen,         \* generate-code requests in flight: requester -> what its
               \* find_one() on db.admins returned and how far it is, or
               \* NoRequest
  schedule,    \* the last answer of POST /calculator/amortization, or
               \* NoSchedule
  paying,      \* record_payment calls in flight: requester -> the document
               \* its find_one() returned, its amount and how far it is, or
               \* NoRequest
  locking,     \* auto-lock sweep in flight: client id -> the document its
               \* find() returned and its loop has not reached yet, or NoClient
  released     \* history: client id -> POST /unlock has cleared is_locked of
               \* the account and neither a payment nor POST /lock has been
               \* served for it since

vars == <<impl, now, clients, payments, unlocking, sweeps, fee_base, last,
          reminders, failed, snapshot, pending, admins, gen, schedule,
          paying, locking, released>>

\* db.admins, the requests on it and the calculator's answer, which no loan
\* request or sweep touches
admin_side == <<admins, gen, schedule>>

\* the payment requests and the auto-lock sweep that are served step by step
stepwise == <<paying, locking>>

\* what the requests and the sweeps run in one piece leave alone
inflight == <<failed, snapshot, pending, admins, gen, schedule,
              paying, locking>>

\* the coroutines that run create_payment_reminders at the same time: two
\* requests POST /reminders/create-all being served
Sweepers == {"first", "second"}

\* Mongo {"$set": upd} on one document
Set(doc, upd) ==
  [f \in DOMAIN doc |-> IF f \in DOMAIN upd THEN upd[f] ELSE doc[f]]

\* update_one({"id": c}, {"$set": upd}): no document, no write
update_one(db, c, upd) ==
  IF db[c] = NoClient THEN db
  ELSE [db EXCEPT ![c] = Set(db[c], upd)]

\* Client(...).dict() as create_client inserts it
NewClient ==
  [loan_plan_id          |-> "none",
   loan_amount           |-> 0,
   down_payment          |-> 0,
   interest_rate         |-> 10,
   loan_tenure_months    |-> 12,
   monthly_emi           |-> 0,
   total_amount_due      |-> 0,
   total_paid            |-> 0,
   outstanding_balance   |-> 0,
   late_fees_accumulated |-> 0,
   last_payment_date     |-> NoDate,
   next_payment_due      |-> NoDate,
   loan_due_date         |-> <<>>,
   days_overdue          |-> 0,
   payment_reminders_enabled |-> TRUE,
   auto_lock_enabled     |-> TRUE,
   auto_lock_grace_days  |-> DefaultGraceDays,
   is_locked             |-> FALSE,
   uninstall_allowed     |-> FALSE,
   registration_code     |-> 0]

Exists(c) == clients[c] # NoClient

\* the admins registered: one super admin and one admin created by it
Admins == {"admin", "super"}

\* Admin(...).dict() as register_admin inserts it
NewAdmin(is_super_admin) ==
  [is_super_admin |-> is_super_admin,
   credits        |-> IF is_super_admin THEN 0 ELSE InitialCredits]

\* the generate-code requests that are served at the same time
Requesters == {"r1", "r2"}
NoRequest == [absent |-> TRUE]
NoSchedule == [absent |-> TRUE]

\* the first request is served on Dec 31, 2024
StartInstant == 30 * TicksPerDay

\* the collections hold the clients of the set created: no loan set up, no
\* payment recorded
InitWith(created) ==
  /\ impl \in Impls
  /\ now = StartInstant
  /\ clients = [c \in Clients |-> IF c \in created THEN NewClient ELSE NoClient]
  /\ payments = <<>>
  /\ unlocking = [c \in Clients |-> 0]
  /\ sweeps = 0
  /\ fee_base = [c \in Clients |-> 0]
  /\ last = "none"
  /\ reminders = <<>>
  /\ failed = "none"
  /\ snapshot = [c \in Clients |-> NoClient]
  /\ pending = [p \in Sweepers |-> {}]
  /\ admins = [a \in Admins |-> NewAdmin(a = "super")]
  /\ gen = [p \in Requesters |-> NoRequest]
  /\ schedule = NoSchedule
  /\ paying = [p \in Requesters |-> NoRequest]
  /\ locking = [c \in Clients |-> NoClient]
  /\ released = [c \in Clients |-> FALSE]


\* ------------------------------------------------------------ loan setup
\* the routes build: tenure check, reducing balance on the financed amount
setup_fields_routes(req, t) ==
  LET emi_data == calculate_reducing_balance_emi(
                    req.loan_amount - req.down_payment,
                    req.interest_rate, req.loan_tenure_months)
  IN  [loan_amount         |-> req.loan_amount,
       down_payment        |-> req.down_payment,
       interest_rate       |-> req.interest_rate,
       loan_tenure_months  |-> req.loan_tenure_months,
       monthly_emi         |-> emi_data.monthly_emi,
       total_amount_due    |-> emi_data.total_amount,
       outstanding_balance |-> emi_data.total_amount,
       next_payment_due    |-> AddOneMonth(t)]

setup_rejected_routes(req) ==
  \/ req.loan_tenure_months < 1
  \/ ReducingRaises(req.loan_amount - req.down_payment,
                    req.interest_rate, req.loan_tenure_months)

\* the server build: simple interest on loan_amount, no checks
setup_fields_server(req, t) ==
  LET loan_calc == calculate_simple_interest_emi(
                     req.loan_amount, req.interest_rate,
                     req.loan_tenure_months)
  IN  [loan_amount         |-> req.loan_amount,
       down_payment        |-> req.down_payment,
       interest_rate       |-> req.interest_rate,
       loan_tenure_months  |-> req.loan_tenure_months,
       monthly_emi         |-> loan_calc.monthly_emi,
       total_amount_due    |-> loan_calc.total_amount,
       outstanding_balance |-> loan_calc.total_amount,
       next_payment_due    |-> AddOneMonth(t),
       days_overdue        |-> 0]

setup_rejected_server(req) ==
  SimpleRaises(req.loan_amount, req.interest_rate, req.loan_tenure_months)

SetupRejected(req) ==
  IF impl = "routes" THEN setup_rejected_routes(req)
  ELSE setup_rejected_server(req)

SetupFields(req, t) ==
  IF impl = "routes" THEN setup_fields_routes(req, t)
  ELSE setup_fields_server(req, t)

\* POST /loans/{client_id}/setup
SetupLoan(c, req) ==
  /\ Exists(c)
  /\ IF SetupRejected(req)
     THEN UNCHANGED <<clients, fee_base>>
     ELSE /\ clients' = update_one(clients, c, SetupFields(req, now))
          /\ fee_base' = [fee_base EXCEPT ![c] = clients[c].late_fees_accumulated]
  /\ last' = "none"
  /\ UNCHANGED <<impl, released, now, payments, unlocking, sweeps, reminders>>
  /\ UNCHANGED inflight

\* ------------------------------------------------- loan setup by due date
\* A due_date string is a sequence of tokens: a calendar date (its day
\* number), the letter T, a time of day, any other text.  None and "" are <<>>.
DateToken(day) == [kind |-> "date", day |-> day]
TToken == [kind |-> "T", day |-> 0]
TimeToken == [kind |-> "time", day |-> 0]
TextToken == [kind |-> "text", day |-> 0]

\* due_date_str.split('T')[0]: the tokens before the first T
RECURSIVE split_T(_)
split_T(str) ==
  IF str = <<>> \/ Head(str).kind = "T" THEN <<>>
  ELSE <<Head(str)>> \o split_T(Tail(str))

\* datetime.fromisoformat() raises ValueError unless given one calendar date
fromisoformat_raises(str) == ~(Len(str) = 1 /\ str[1].kind = "date")
fromisoformat(str) == str[1].day * TicksPerDay

\* dt + relativedelta(months=m), m >= 0
AddMonths(t, m) ==
  LET day == t \div TicksPerDay
      tod == t % TicksPerDay
      mo  == MonthOf(day)
      dom == day - MonthStart(mo)
      d2  == Min(dom, DaysIn(mo + m) - 1)
  IN  (MonthStart(mo + m) + d2) * TicksPerDay + tod

\* relativedelta(due, start).years * 12 + .months for due >= start: the
\* whole months that fit between the two
RECURSIVE months_between(_, _, _)
months_between(due, start, m) ==
  IF AddMonths(start, m + 1) <= due THEN months_between(due, start, m + 1)
  ELSE m

\* the tenure setup_loan derives from a parsed due date; for a due date
\* before loan_start relativedelta has months <= 0 and days <= 0
tenure_from_due(due, start) ==
  IF due < start THEN 1
  ELSE LET months == months_between(due, start, 0)
           days   == (due - AddMonths(start, months)) \div TicksPerDay
           tenure == IF days > 0 THEN months + 1 ELSE months
       IN  Max(1, tenure)

\* "if due_date_str:" and the except clause: the 400 for a due date that
\* does not parse
due_rejected(due) == due # <<>> /\ fromisoformat_raises(split_T(due))

\* the request with the tenure the routes build goes on with
resolved(req, due, t) ==
  IF due = <<>> THEN req
  ELSE [req EXCEPT !.loan_tenure_months =
                      tenure_from_due(fromisoformat(split_T(due)), t)]

\* POST /loans/{client_id}/setup with a due_date in the body; the server
\* build has no such field and ignores it
SetupLoanDue(c, req, due) ==
  /\ Exists(c)
  /\ IF impl = "server"
     THEN IF setup_rejected_server(req)
          THEN UNCHANGED <<clients, fee_base>>
          ELSE /\ clients' = update_one(clients, c, setup_fields_server(req, now))
               /\ fee_base' = [fee_base EXCEPT
                                 ![c] = clients[c].late_fees_accumulated]
     ELSE IF \/ due_rejected(due)
             \/ setup_rejected_routes(resolved(req, due, now))
          THEN UNCHANGED <<clients, fee_base>>
          ELSE /\ clients' = update_one(clients, c,
                   IF due = <<>>
                   THEN setup_fields_routes(req, now)
                   ELSE setup_fields_routes(resolved(req, due, now), now)
                          @@ [loan_due_date |-> due])
               /\ fee_base' = [fee_base EXCEPT
                                 ![c] = clients[c].late_fees_accumulated]
  /\ last' = "none"
  /\ UNCHANGED <<impl, released, now, payments, unlocking, sweeps, reminders>>
  /\ UNCHANGED inflight

\* --------------------------------------------------------------- payments
Entry(c, amount) == [client_id |-> c, amount |-> amount]

PaymentDate(d) == IF d = NoDate THEN now ELSE d

\* variant: the first update_one without the max(0, ...) clamp
payment_fields_unclamped(client, amount, pdate) ==
  [total_paid          |-> client.total_paid + amount,
   outstanding_balance |-> client.outstanding_balance - amount,
   last_payment_date   |-> pdate,
   next_payment_due    |-> IF client.next_payment_due # NoDate
                           THEN AddOneMonth(client.next_payment_due)
                           ELSE NoDate,
   days_overdue        |-> 0]

\* routes build, first update_one of record_payment
payment_fields_routes(client, amount, pdate) ==
  [total_paid          |-> client.total_paid + amount,
   outstanding_balance |-> Max(0, client.outstanding_balance - amount),
   last_payment_date   |-> pdate,
   next_payment_due    |-> IF client.next_payment_due # NoDate
                           THEN AddOneMonth(client.next_payment_due)
                           ELSE NoDate,
   days_overdue        |-> 0]

\* routes build: "if new_outstanding <= 0" a second update_one follows
payment_unlocks_routes(client, amount) ==
  Max(0, client.outstanding_balance - amount) <= 0

\* server build: None + relativedelta(months=1) raises TypeError
payment_raises_server(client) == client.next_payment_due = NoDate

\* server build, the single update_one of record_payment
payment_fields_server(client, amount, pdate) ==
  LET total_paid  == client.total_paid + amount
      outstanding == client.total_amount_due - total_paid
      base == [total_paid          |-> total_paid,
               outstanding_balance |-> Max(0, outstanding),
               last_payment_date   |-> pdate,
               next_payment_due    |-> IF outstanding > 0
                                       THEN AddOneMonth(client.next_payment_due)
                                       ELSE NoDate,
               days_overdue        |-> 0]
  IN  IF outstanding <= 0
      THEN base @@ [is_locked |-> FALSE]
      ELSE base

\* POST /loans/{client_id}/payments
RecordPayment(c, amount, d) ==
  /\ Exists(c)
  /\ payments' = Append(payments, Entry(c, amount))
  /\ IF impl = "routes"
     THEN /\ clients' = update_one(clients, c,
                           payment_fields_routes(clients[c], amount, PaymentDate(d)))
          /\ fee_base' = [fee_base EXCEPT ![c] = clients[c].late_fees_accumulated]
          /\ IF payment_unlocks_routes(clients[c], amount)
             THEN unlocking' = [unlocking EXCEPT ![c] = @ + 1]
             ELSE UNCHANGED unlocking
     ELSE /\ IF payment_raises_server(clients[c])
             THEN UNCHANGED <<clients, fee_base>>
             ELSE /\ clients' = update_one(clients, c,
                           payment_fields_server(clients[c], amount, PaymentDate(d)))
                  /\ fee_base' = [fee_base EXCEPT ![c] = clients[c].late_fees_accumulated]
          /\ UNCHANGED unlocking
  /\ last' = "none"
  /\ released' = [released EXCEPT ![c] = FALSE]
  /\ UNCHANGED <<impl, now, sweeps, reminders>>
  /\ UNCHANGED inflight

\* routes build, the second update_one of record_payment
PaymentUnlock(c) ==
  /\ unlocking[c] > 0
  /\ unlocking' = [unlocking EXCEPT ![c] = @ - 1]
  /\ clients' = update_one(clients, c, [is_locked |-> FALSE])
  /\ last' = "none"
  /\ UNCHANGED <<impl, released, now, payments, sweeps, fee_base, reminders>>
  /\ UNCHANGED inflight

\* record_payment served step by step: the coroutine gives way at every
\* await. Up to the find_one on db.clients: the handler keeps the document
PaymentRead(p, c, amount) ==
  /\ paying[p] = NoRequest
  /\ Exists(c)
  /\ paying' = [paying EXCEPT ![p] =
                  [client |-> c, amount |-> amount, doc |-> clients[c],
                   stage |-> "read"]]
  /\ last' = "none"
  /\ UNCHANGED <<impl, released, now, clients, payments, unlocking, sweeps, fee_base,
                 reminders, failed, snapshot, pending, locking>>
  /\ UNCHANGED admin_side

\* the insert_one on db.payments
PaymentInsert(p) ==
  /\ paying[p] # NoRequest
  /\ paying[p].stage = "read"
  /\ payments' = Append(payments, Entry(paying[p].client, paying[p].amount))
  /\ paying' = [paying EXCEPT ![p].stage = "inserted"]
  /\ last' = "none"
  /\ UNCHANGED <<impl, released, now, clients, unlocking, sweeps, fee_base,
                 reminders, failed, snapshot, pending, locking>>
  /\ UNCHANGED admin_side

\* the update_one on db.clients, computed from the document that was read
PaymentWrite(p) ==
  LET c      == paying[p].client
      amount == paying[p].amount
      doc    == paying[p].doc
  IN  /\ paying[p] # NoRequest
      /\ paying[p].stage = "inserted"
      /\ IF impl = "routes"
         THEN /\ clients' = update_one(clients, c,
                              payment_fields_routes(doc, amount, now))
              /\ IF payment_unlocks_routes(doc, amount)
                 THEN unlocking' = [unlocking EXCEPT ![c] = @ + 1]
                 ELSE UNCHANGED unlocking
         ELSE /\ IF payment_raises_server(doc)
                 THEN UNCHANGED clients
                 ELSE clients' = update_one(clients, c,
                                   payment_fields_server(doc, amount, now))
              /\ UNCHANGED unlocking
      /\ fee_base' = IF clients' = clients THEN fee_base
                     ELSE [fee_base EXCEPT ![c] = doc.late_fees_accumulated]
      /\ paying' = [paying EXCEPT ![p] = NoRequest]
      /\ last' = "none"
      /\ released' = [released EXCEPT ![c] = FALSE]
      /\ UNCHANGED <<impl, now, payments, sweeps, reminders, failed, snapshot,
                     pending, locking>>
      /\ UNCHANGED admin_side

\* ---------------------------------------------------------- operator calls
\* POST /clients/{client_id}/lock
LockClient(c) ==
  /\ Exists(c)
  /\ clients' = update_one(clients, c, [is_locked |-> TRUE])
  /\ last' = "none"
  /\ released' = [released EXCEPT ![c] = FALSE]
  /\ UNCHANGED <<impl, now, payments, unlocking, sweeps, fee_base, reminders>>
  /\ UNCHANGED inflight

\* POST /clients/{client_id}/unlock
UnlockClient(c) ==
  /\ Exists(c)
  /\ clients' = update_one(clients, c, [is_locked |-> FALSE])
  /\ last' = "none"
  /\ released' = [released EXCEPT ![c] = @ \/ clients[c].is_locked]
  /\ UNCHANGED <<impl, now, payments, unlocking, sweeps, fee_base, reminders>>
  /\ UNCHANGED inflight

\* PUT /loans/{client_id}/settings
UpdateLoanSettings(c, enabled, grace) ==
  /\ Exists(c)
  /\ clients' = update_one(clients, c, [auto_lock_enabled    |-> enabled,
                                        auto_lock_grace_days |-> grace])
  /\ last' = "none"
  /\ UNCHANGED <<impl, released, now, payments, unlocking, sweeps, fee_base, reminders>>
  /\ UNCHANGED inflight

\* POST /clients/{client_id}/allow-uninstall
AllowUninstall(c) ==
  /\ Exists(c)
  /\ clients' = update_one(clients, c, [uninstall_allowed |-> TRUE])
  /\ last' = "none"
  /\ UNCHANGED <<impl, released, now, payments, unlocking, sweeps, fee_base, reminders>>
  /\ UNCHANGED inflight

\* the server build refuses to delete before allow-uninstall (400)
delete_rejected(client) ==
  impl = "server" /\ ~client.uninstall_allowed

\* variant: delete_many({}) empties the payments collection
delete_all_payments(ledger, c) ==
  IF impl = "routes"
  THEN <<>>
  ELSE ledger

\* db.payments.delete_many({"client_id": c}) and
\* db.reminders.delete_many({"client_id": c}), routes build only
delete_many(ledger, c) ==
  IF impl = "routes"
  THEN SelectSeq(ledger, LAMBDA e : e.client_id # c)
  ELSE ledger

\* DELETE /clients/{client_id}
DeleteClient(c) ==
  /\ Exists(c)
  /\ IF delete_rejected(clients[c])
     THEN UNCHANGED <<clients, payments, reminders>>
     ELSE /\ clients' = [clients EXCEPT ![c] = NoClient]
          /\ payments' = delete_many(payments, c)
          /\ reminders' = delete_many(reminders, c)
  /\ last' = "none"
  /\ UNCHANGED <<impl, released, now, unlocking, sweeps, fee_base>>
  /\ UNCHANGED inflight

\* ----------------------------------------------------- amortization schedule
Methods == {"reducing_balance", "simple_interest", "flat_rate"}

\* the if/elif/else on method of either build
emi_data(method, principal, rate, months) ==
  IF method = "simple_interest"
  THEN calculate_simple_interest_emi(principal, rate, months)
  ELSE IF method = "flat_rate"
       THEN calculate_flat_rate_emi(principal, rate, months)
       ELSE calculate_reducing_balance_emi(principal, rate, months)

\* routes build: the loop of generate_amortization_schedule from month k on,
\* the balance being num / den; the rounded balance of each row
RECURSIVE schedule_routes(_, _, _, _, _, _)
schedule_routes(num, den, emi, rate, k, months) ==
  IF k > months THEN <<>>
  ELSE LET a == RateNum(rate)
           b == RateDen(rate)
           balance == Max(0, num * (a + b) - emi * den * b)
       IN  <<RoundDiv(balance, den * b)>>
             \o schedule_routes(balance, den * b, emi, rate, k + 1, months)

\* server build, method reducing_balance: remaining_principal is not clamped
\* in the loop, only in the row
RECURSIVE schedule_server_reducing(_, _, _, _, _, _)
schedule_server_reducing(num, den, emi, rate, k, months) ==
  IF k > months THEN <<>>
  ELSE LET a == RateNum(rate)
           b == RateDen(rate)
           remaining == num * (a + b) - emi * den * b
       IN  <<RoundDiv(Max(0, remaining), den * b)>>
             \o schedule_server_reducing(remaining, den * b, emi, rate,
                                         k + 1, months)

\* server build, the other methods: interest_payment is total_interest /
\* months in every row; remaining_principal after row k, times months
schedule_server_flat(principal, data, months) ==
  [k \in 1..months |->
     RoundDiv(Max(0, months * principal
                       - k * (months * data.monthly_emi - data.total_interest)),
              months)]

\* "if principal <= 0 or months <= 0" of both builds, "annual_rate < 0" of
\* the routes build
amortization_rejected(principal, rate, months) ==
  \/ principal <= 0
  \/ months <= 0
  \/ impl = "routes" /\ rate < 0

\* POST /calculator/amortization
Amortization(principal, rate, months, method) ==
  /\ IF amortization_rejected(principal, rate, months)
     THEN UNCHANGED schedule
     ELSE LET data == emi_data(method, principal, rate, months)
          IN  schedule' =
                [method    |-> method,
                 principal |-> principal,
                 rate      |-> rate,
                 months    |-> months,
                 balance   |->
                   IF impl = "routes"
                   THEN schedule_routes(principal, 1, data.monthly_emi,
                                        rate, 1, months)
                   ELSE IF method = "reducing_balance"
                        THEN schedule_server_reducing(principal, 1,
                               data.monthly_emi, rate, 1, months)
                        ELSE schedule_server_flat(principal, data, months)]
  /\ last' = "none"
  /\ UNCHANGED <<impl, released, now, clients, payments, unlocking, sweeps, fee_base,
                 reminders, failed, snapshot, pending, admins, gen>>
  /\ UNCHANGED stepwise

\* ------------------------------------------------------------ generate-code
\* POST /clients/{client_id}/generate-code, routes build, up to its credit
\* check: the handler keeps the admin document its find_one() returned
GenerateCodeCheck(p, a, c) ==
  /\ impl = "routes"
  /\ gen[p] = NoRequest
  /\ Exists(c)
  /\ IF ~admins[a].is_super_admin /\ admins[a].credits < 1
     THEN UNCHANGED gen
     ELSE gen' = [gen EXCEPT ![p] =
                    [admin          |-> a,
                     client         |-> c,
                     is_super_admin |-> admins[a].is_super_admin,
                     credits        |-> admins[a].credits,
                     stage          |-> "checked"]]
  /\ last' = "none"
  /\ UNCHANGED <<impl, released, now, clients, payments, unlocking, sweeps, fee_base,
                 reminders, failed, snapshot, pending, admins, schedule>>
  /\ UNCHANGED stepwise

\* the update_one on db.clients: a new code replaces the stored one
GenerateCodeWrite(p) ==
  /\ gen[p] # NoRequest
  /\ gen[p].stage = "checked"
  /\ clients' = update_one(clients, gen[p].client,
                  [registration_code |->
                     IF Exists(gen[p].client)
                     THEN clients[gen[p].client].registration_code + 1
                     ELSE 0])
  /\ gen' = [gen EXCEPT ![p].stage = "coded"]
  /\ last' = "none"
  /\ UNCHANGED <<impl, released, now, payments, unlocking, sweeps, fee_base,
                 reminders, failed, snapshot, pending, admins, schedule>>
  /\ UNCHANGED stepwise

\* "if not is_super_admin": the update_one {"$inc": {"credits": -1}}
GenerateCodeCharge(p) ==
  /\ gen[p] # NoRequest
  /\ gen[p].stage = "coded"
  /\ IF gen[p].is_super_admin
     THEN UNCHANGED admins
     ELSE admins' = [admins EXCEPT ![gen[p].admin].credits = @ - 1]
  /\ gen' = [gen EXCEPT ![p] = NoRequest]
  /\ last' = "generate_code"
  /\ UNCHANGED <<impl, released, now, clients, payments, unlocking, sweeps, fee_base,
                 reminders, failed, snapshot, pending, schedule>>
  /\ UNCHANGED stepwise

\* ------------------------------------------------------------ penalty sweep
\* db.loan_plans as ensure_default_loan_plan seeds it
LoanPlans == [default |-> [late_fee_percent |-> 0]]

late_fee_rate(client) ==
  IF client.loan_plan_id \in DOMAIN LoanPlans
  THEN LoanPlans[client.loan_plan_id].late_fee_percent
  ELSE DefaultLateFeeRate

\* variant: the find() filter without the outstanding_balance condition
penalty_selected_any_balance(client, t) ==
  /\ client # NoClient
  /\ client.next_payment_due # NoDate
  /\ client.next_payment_due < t

\* the find() filter of apply_late_fees_to_overdue_clients
penalty_selected(client, t) ==
  /\ client # NoClient
  /\ client.next_payment_due # NoDate
  /\ client.next_payment_due < t
  /\ client.outstanding_balance > 0

\* the loop body of apply_late_fees_to_overdue_clients for one client
penalty_item(client, t) ==
  LET days_overdue == DaysBetween(t, client.next_payment_due)
  IN  IF days_overdue > 0
      THEN Set(client,
               [late_fees_accumulated |->
                  client.late_fees_accumulated
                  + calculate_late_fee(client.monthly_emi,
                                       late_fee_rate(client), days_overdue),
                days_overdue |-> days_overdue])
      ELSE client

\* apply_late_fees_to_overdue_clients()
PenaltySweep ==
  /\ sweeps' = sweeps + 1
  /\ clients' = [c \in Clients |->
                   IF penalty_selected(clients[c], now)
                   THEN penalty_item(clients[c], now)
                   ELSE clients[c]]
  /\ last' = "penalty_sweep"
  /\ UNCHANGED <<impl, released, now, payments, unlocking, fee_base, reminders>>
  /\ UNCHANGED inflight

\* ---------------------------------------------------------- auto-lock sweep
\* variant: the filter also asks for a stored days_overdue above 0
autolock_selected_counted(client) ==
  /\ client # NoClient
  /\ client.auto_lock_enabled
  /\ client.next_payment_due # NoDate
  /\ client.days_overdue > 0

\* the find() filter and the "continue" of auto_lock_job
autolock_selected(client) ==
  /\ client # NoClient
  /\ client.auto_lock_enabled
  /\ client.next_payment_due # NoDate

\* variant: locks on the last grace day already
locks_at_grace(client, t) ==
  /\ DaysBetween(t, client.next_payment_due) >= client.auto_lock_grace_days
  /\ ~client.is_locked

\* "if days_overdue > grace_days and not client.get('is_locked')"
autolock_locks(client, t) ==
  /\ DaysBetween(t, client.next_payment_due) > client.auto_lock_grace_days
  /\ ~client.is_locked

\* variant: the else branch also clears the lock flag
autolock_item_releasing(client, t) ==
  LET days_overdue == DaysBetween(t, client.next_payment_due)
  IN  IF autolock_locks(client, t)
      THEN Set(client, [is_locked |-> TRUE, days_overdue |-> days_overdue])
      ELSE Set(client, [is_locked |-> days_overdue > client.auto_lock_grace_days,
                        days_overdue |-> Max(0, days_overdue)])

\* the loop body of auto_lock_job for one client
autolock_item(client, t) ==
  LET days_overdue == DaysBetween(t, client.next_payment_due)
  IN  IF autolock_locks(client, t)
      THEN Set(client, [is_locked |-> TRUE, days_overdue |-> days_overdue])
      ELSE Set(client, [days_overdue |-> Max(0, days_overdue)])

\* variant: the sweep passes over an account whose stored days_overdue is
\* already above its grace days
AutoLockSweep_once ==
  /\ clients' = [c \in Clients |->
                   IF /\ autolock_selected(clients[c])
                      /\ clients[c].days_overdue <= clients[c].auto_lock_grace_days
                   THEN autolock_item(clients[c], now)
                   ELSE clients[c]]
  /\ last' = "autolock_sweep"
  /\ UNCHANGED <<impl, released, now, payments, unlocking, sweeps, fee_base, reminders>>
  /\ UNCHANGED inflight

\* check_and_auto_lock_overdue_payments()
AutoLockSweep ==
  /\ clients' = [c \in Clients |->
                   IF autolock_selected(clients[c])
                   THEN autolock_item(clients[c], now)
                   ELSE clients[c]]
  /\ last' = "autolock_sweep"
  /\ UNCHANGED <<impl, released, now, payments, unlocking, sweeps, fee_base, reminders>>
  /\ UNCHANGED inflight

\* ----------------------------------------------------------- reminder sweep
\* find().to_list() returns the documents in insertion order
ClientOrder == <<"c1", "c2">>

\* reminder_configs of create_payment_reminders
reminder_configs ==
  {[days_before |-> 0,  reminder_type |-> "payment_due_today"],
   [days_before |-> -1, reminder_type |-> "payment_overdue_1day"],
   [days_before |-> -3, reminder_type |-> "payment_overdue_3days"],
   [days_before |-> -7, reminder_type |-> "payment_overdue_7days"]}

\* the find() filter and the "continue" of create_payment_reminders
reminder_selected(client) ==
  /\ client # NoClient
  /\ client.outstanding_balance > 0
  /\ client.payment_reminders_enabled
  /\ client.next_payment_due # NoDate

\* (next_due - datetime.utcnow()).days
days_until_due(client, t) == DaysBetween(client.next_payment_due, t)

\* the reminder types whose threshold the client is at: none or one
reminder_due(client, t) ==
  IF reminder_selected(client)
  THEN {cfg.reminder_type : cfg \in
          {k \in reminder_configs : k.days_before = days_until_due(client, t)}}
  ELSE {}

\* Reminder(client_id, reminder_type, scheduled_date=utcnow())
Reminder(c, type, t) ==
  [client_id |-> c, reminder_type |-> type, scheduled_date |-> t]

\* variant: the find_one() looks for a reminder scheduled at this instant
reminder_exists_now(rs, c, type, t) ==
  \E i \in 1..Len(rs) :
    /\ rs[i].client_id = c
    /\ rs[i].reminder_type = type
    /\ rs[i].scheduled_date >= t

\* the find_one() for a reminder of the type scheduled in the last 24 hours
reminder_exists(rs, c, type, t) ==
  \E i \in 1..Len(rs) :
    /\ rs[i].client_id = c
    /\ rs[i].reminder_type = type
    /\ rs[i].scheduled_date >= t - TicksPerDay

\* the loop body of create_payment_reminders for one client
reminder_item(rs, c, t) ==
  LET due == reminder_due(clients[c], t)
  IN  IF due # {} /\ ~reminder_exists(rs, c, CHOOSE type \in due : TRUE, t)
      THEN Append(rs, Reminder(c, CHOOSE type \in due : TRUE, t))
      ELSE rs

\* the loop of create_payment_reminders from the i-th document on
RECURSIVE reminder_loop(_, _, _)
reminder_loop(rs, i, t) ==
  IF i > Len(ClientOrder) THEN rs
  ELSE reminder_loop(reminder_item(rs, ClientOrder[i], t), i + 1, t)

\* create_payment_reminders(), run in one piece
ReminderSweep ==
  /\ reminders' = reminder_loop(reminders, 1, now)
  /\ last' = "reminder_sweep"
  /\ UNCHANGED <<impl, released, now, clients, payments, unlocking, sweeps, fee_base>>
  /\ UNCHANGED inflight

\* create_payment_reminders() run by several coroutines: between the await
\* of find_one() and the await of insert_one() of one of them the others run.
\* The find_one() of sweeper p for client c returns None
ReminderCheck(p, c) ==
  /\ Exists(c)
  /\ \E type \in reminder_due(clients[c], now) :
       /\ ~reminder_exists(reminders, c, type, now)
       /\ <<c, type>> \notin pending[p]
       /\ pending' = [pending EXCEPT ![p] = @ \cup {<<c, type>>}]
  /\ last' = "none"
  /\ UNCHANGED <<impl, released, now, clients, payments, unlocking, sweeps, fee_base,
                 reminders, failed, snapshot>>
  /\ UNCHANGED admin_side
  /\ UNCHANGED stepwise

\* the insert_one() of sweeper p that follows a find_one() returning None
ReminderInsert(p, c) ==
  /\ \E type \in {"payment_due_today", "payment_overdue_1day",
                   "payment_overdue_3days", "payment_overdue_7days"} :
       /\ <<c, type>> \in pending[p]
       /\ pending' = [pending EXCEPT ![p] = @ \ {<<c, type>>}]
       /\ reminders' = Append(reminders, Reminder(c, type, now))
  /\ last' = "none"
  /\ UNCHANGED <<impl, released, now, clients, payments, unlocking, sweeps, fee_base,
                 failed, snapshot>>
  /\ UNCHANGED admin_side
  /\ UNCHANGED stepwise

\* ------------------------------------------------- sweeps that are cut short
\* Each sweep runs its loop inside one try block (the auto-lock job inside
\* none): when the processing of one document raises, for instance its
\* update_one() on a database error, the loop ends there.
Index(c) == CHOOSE i \in 1..Len(ClientOrder) : ClientOrder[i] = c

\* apply_late_fees_to_overdue_clients() whose item for client f raises
PenaltySweepFails(f) ==
  /\ penalty_selected(clients[f], now)
  /\ DaysBetween(now, clients[f].next_payment_due) > 0
  /\ sweeps' = sweeps + 1
  /\ clients' = [c \in Clients |->
                   IF Index(c) < Index(f) /\ penalty_selected(clients[c], now)
                   THEN penalty_item(clients[c], now)
                   ELSE clients[c]]
  /\ last' = "penalty_sweep_cut"
  /\ failed' = f
  /\ UNCHANGED <<impl, released, now, payments, unlocking, fee_base, reminders,
                 snapshot, pending>>
  /\ UNCHANGED admin_side
  /\ UNCHANGED stepwise

\* auto_lock_job() whose item for client f raises
AutoLockSweepFails(f) ==
  /\ autolock_selected(clients[f])
  /\ clients' = [c \in Clients |->
                   IF Index(c) < Index(f) /\ autolock_selected(clients[c])
                   THEN autolock_item(clients[c], now)
                   ELSE clients[c]]
  /\ last' = "autolock_sweep_cut"
  /\ failed' = f
  /\ UNCHANGED <<impl, released, now, payments, unlocking, sweeps, fee_base, reminders,
                 snapshot, pending>>
  /\ UNCHANGED admin_side
  /\ UNCHANGED stepwise

\* the loop of create_payment_reminders up to the document of client f
RECURSIVE reminder_loop_until(_, _, _, _)
reminder_loop_until(rs, i, f, t) ==
  IF i > Len(ClientOrder) \/ ClientOrder[i] = f THEN rs
  ELSE reminder_loop_until(reminder_item(rs, ClientOrder[i], t), i + 1, f, t)

\* create_payment_reminders() whose item for client f raises
ReminderSweepFails(f) ==
  /\ reminder_due(clients[f], now) # {}
  /\ reminders' = reminder_loop_until(reminders, 1, f, now)
  /\ last' = "reminder_sweep_cut"
  /\ failed' = f
  /\ UNCHANGED <<impl, released, now, clients, payments, unlocking, sweeps, fee_base,
                 snapshot, pending>>
  /\ UNCHANGED admin_side
  /\ UNCHANGED stepwise

\* ----------------------------------------- auto-lock sweep, step by step
\* auto_lock_job served step by step. Up to the end of its find(): the list
\* of documents the loop will go through
AutoLockRead ==
  /\ \A c \in Clients : locking[c] = NoClient
  /\ locking' = [c \in Clients |->
                   IF autolock_selected(clients[c]) THEN clients[c]
                   ELSE NoClient]
  /\ last' = "autolock_read"
  /\ UNCHANGED <<impl, released, now, clients, payments, unlocking, sweeps, fee_base,
                 reminders, failed, snapshot, pending, paying>>
  /\ UNCHANGED admin_side

\* one turn of the loop: the test is made on the document of the list, the
\* update_one goes to the collection
AutoLockWrite(c) ==
  /\ locking[c] # NoClient
  /\ \A o \in Clients : locking[o] # NoClient => Index(c) <= Index(o)
  /\ locking' = [locking EXCEPT ![c] = NoClient]
  /\ clients' = update_one(clients, c,
                  IF autolock_locks(locking[c], now)
                  THEN [is_locked    |-> TRUE,
                        days_overdue |-> DaysBetween(now, locking[c].next_payment_due)]
                  ELSE [days_overdue |->
                          Max(0, DaysBetween(now, locking[c].next_payment_due))])
  /\ last' = "autolock_write"
  /\ UNCHANGED <<impl, released, now, payments, unlocking, sweeps, fee_base,
                 reminders, failed, snapshot, pending, paying>>
  /\ UNCHANGED admin_side

\* ------------------------------------------- penalty sweep, step by step
\* apply_late_fees_to_overdue_clients() up to the end of its find(): the
\* list of documents the loop will go through
PenaltyRead ==
  /\ \A c \in Clients : snapshot[c] = NoClient
  /\ sweeps' = sweeps + 1
  /\ snapshot' = [c \in Clients |->
                    IF penalty_selected(clients[c], now)
                    THEN clients[c]
                    ELSE NoClient]
  /\ last' = "penalty_read"
  /\ UNCHANGED <<impl, released, now, clients, payments, unlocking, fee_base, reminders,
                 failed, pending>>
  /\ UNCHANGED admin_side
  /\ UNCHANGED stepwise

\* one turn of the loop: days_overdue and the fee are computed from the
\* document of the list, the update_one goes to the collection
PenaltyWrite(c) ==
  /\ snapshot[c] # NoClient
  /\ \A o \in Clients : snapshot[o] # NoClient => Index(c) <= Index(o)
  /\ snapshot' = [snapshot EXCEPT ![c] = NoClient]
  /\ IF DaysBetween(now, snapshot[c].next_payment_due) > 0
     THEN clients' = update_one(clients, c,
            [late_fees_accumulated |->
               penalty_item(snapshot[c], now).late_fees_accumulated,
             days_overdue |-> penalty_item(snapshot[c], now).days_overdue])
     ELSE UNCHANGED clients
  /\ last' = "penalty_write"
  /\ UNCHANGED <<impl, released, now, payments, unlocking, sweeps, fee_base, reminders,
                 failed, pending>>
  /\ UNCHANGED admin_side
  /\ UNCHANGED stepwise

\* ------------------------------------------------------------------- clock
Advance(t) ==
  /\ t > now
  /\ now' = t
  /\ last' = "none"
  /\ UNCHANGED <<impl, released, clients, payments, unlocking, sweeps, fee_base, reminders>>
  /\ UNCHANGED inflight

\* ------------------------------------------------------------ request values
Request(la, dp, rate, months) ==
  [loan_amount |-> la, down_payment |-> dp,
   interest_rate |-> rate, loan_tenure_months |-> months]

\* LoanSetup bodies: an interest-free loan, a loan at 120% a year with a
\* down payment, a down payment above the loan amount, a tenure of zero
PlainRequest == Request(10000, 0, 0, 4)
InterestRequest == Request(20000, 5000, 120, 2)
NegativeRequest == Request(5000, 10000, 0, 1)
ZeroTenureRequest == Request(10000, 0, 0, 0)

\* PaymentCreate.amount, any float is accepted: a refund, less than an
\* installment, two installments, the whole plain loan, more than any loan
PaymentAmounts == {-2000, 1000, 5000, 10000, 30000}
\* PaymentCreate.payment_date: absent (None)
PaymentDates == {NoDate}

\* ---------------------------------------------------- Spec: the loan in time
\* One account, the requests that touch its loan fields and lock flag, both
\* sweeps and the clock.
\* The later instants at which requests and sweeps are served: 3.5 and 4
\* days after Jan 31, and 4 days after Feb 28
Instants == {64 * TicksPerDay + 1, 65 * TicksPerDay, 93 * TicksPerDay}
SetupRequests == {PlainRequest, NegativeRequest, ZeroTenureRequest}
TimedAmounts == {-2000, 5000, 30000}
\* LoanSettings.auto_lock_grace_days
GraceDays == {DefaultGraceDays}

Init == InitWith({"c1"})

Next ==
  \/ \E c \in Clients, req \in SetupRequests : SetupLoan(c, req)
  \/ \E c \in Clients, a \in TimedAmounts, d \in PaymentDates :
       Len(payments) < MaxPayments /\ RecordPayment(c, a, d)
  \/ \E c \in Clients : PaymentUnlock(c)
  \/ \E c \in Clients : LockClient(c)
  \/ \E c \in Clients : UnlockClient(c)
  \/ \E c \in Clients, en \in BOOLEAN, g \in GraceDays :
       UpdateLoanSettings(c, en, g)
  \/ sweeps < MaxPenaltySweeps /\ PenaltySweep
  \/ AutoLockSweep
  \/ \E t \in Instants : Advance(t)

Spec == Init /\ [][Next]_vars

\* ------------------------------------------- SpecPay: requests at one instant
\* One account, the requests that write its balances and its lock flag; the
\* clock stands still and no sweep runs.
MaxLedger == 3            \* payments recorded in one behaviour of SpecPay
PaySetupRequests == {PlainRequest, InterestRequest, NegativeRequest}

NextPay ==
  \/ \E c \in Clients, req \in PaySetupRequests : SetupLoan(c, req)
  \/ \E c \in Clients, a \in PaymentAmounts, d \in PaymentDates :
       Len(payments) < MaxLedger /\ RecordPayment(c, a, d)
  \/ \E c \in Clients : PaymentUnlock(c)
  \/ \E c \in Clients : LockClient(c)
  \/ \E c \in Clients : UnlockClient(c)

SpecPay == Init /\ [][NextPay]_vars

\* ------------------------------------------------- SpecLedger: two accounts
\* Two accounts and the requests that reach the payments collection or remove
\* an account; the clock stands still and no sweep runs.
MaxEntries == 2           \* payments recorded in one behaviour of SpecLedger
LedgerAmounts == {5000, 30000}

InitLedger == InitWith(Clients)

NextLedger ==
  \/ \E c \in Clients : SetupLoan(c, PlainRequest)
  \/ \E c \in Clients, a \in LedgerAmounts, d \in PaymentDates :
       Len(payments) < MaxEntries /\ RecordPayment(c, a, d)
  \/ \E c \in Clients : PaymentUnlock(c)
  \/ \E c \in Clients : LockClient(c)
  \/ \E c \in Clients : AllowUninstall(c)
  \/ \E c \in Clients : DeleteClient(c)

SpecLedger == InitLedger /\ [][NextLedger]_vars

\* ---------------------------------------------- SpecSweep: two accounts in time
\* Two accounts with loans set up and paid off at different instants, the
\* clock and the penalty sweep.
MaxSweepPayments == 1     \* payments recorded in one behaviour of SpecSweep
MaxSweeps == 2            \* penalty sweeps run in one behaviour of SpecSweep
SweepAmounts == {30000}

NextSweep ==
  \/ \E c \in Clients : SetupLoan(c, PlainRequest)
  \/ \E c \in Clients, a \in SweepAmounts, d \in PaymentDates :
       Len(payments) < MaxSweepPayments /\ RecordPayment(c, a, d)
  \/ \E c \in Clients : PaymentUnlock(c)
  \/ sweeps < MaxSweeps /\ PenaltySweep
  \/ \E t \in Instants : Advance(t)

SpecSweep == InitLedger /\ [][NextSweep]_vars

\* ------------------------------------------- SpecRemind: reminders in time
\* One account, its loan and payments, the clock around the due date and
\* the reminder sweep run in one piece.
MaxRemindPayments == 1    \* payments recorded in one behaviour of SpecRemind
MaxReminders == 3         \* reminders a sweep of SpecRemind starts from at most
\* Jan 31 itself, then 0.5, 2.5, 3 and 3.5 days after it
RemindInstants ==
  {61 * TicksPerDay, 61 * TicksPerDay + 1, 63 * TicksPerDay + 1,
   64 * TicksPerDay, 64 * TicksPerDay + 1}
RemindAmounts == {5000, 30000}

NextRemind ==
  \/ \E c \in Clients : SetupLoan(c, PlainRequest)
  \/ \E c \in Clients, a \in RemindAmounts, d \in PaymentDates :
       Len(payments) < MaxRemindPayments /\ RecordPayment(c, a, d)
  \/ \E c \in Clients : PaymentUnlock(c)
  \/ Len(reminders) < MaxReminders /\ ReminderSweep
  \/ \E t \in RemindInstants : Advance(t)

SpecRemind == Init /\ [][NextRemind]_vars

\* ------------------------------------- SpecRemindRace: concurrent reminders
\* One account and its loan, the clock around the due date and two
\* coroutines running the reminder sweep step by step.
MaxRaceReminders == 2     \* reminders created in one behaviour of SpecRemindRace

NextRemindRace ==
  \/ \E c \in Clients : SetupLoan(c, PlainRequest)
  \/ \E p \in Sweepers, c \in Clients : ReminderCheck(p, c)
  \/ \E p \in Sweepers, c \in Clients :
       Len(reminders) < MaxRaceReminders /\ ReminderInsert(p, c)
  \/ \E t \in RemindInstants : Advance(t)

SpecRemindRace == Init /\ [][NextRemindRace]_vars

\* ------------------------------------------------ SpecFail: failing sweeps
\* Two accounts and their loans, the clock, and sweeps in which the
\* processing of one account raises.
MaxFailSweeps == 2        \* penalty sweeps run in one behaviour of SpecFail
MaxFailReminders == 2     \* reminders a sweep of SpecFail starts from at most
FailInstants == {61 * TicksPerDay, 65 * TicksPerDay}

NextFail ==
  \/ \E c \in Clients : SetupLoan(c, PlainRequest)
  \/ \E f \in Clients : sweeps < MaxFailSweeps /\ PenaltySweepFails(f)
  \/ \E f \in Clients : AutoLockSweepFails(f)
  \/ \E f \in Clients :
       Len(reminders) < MaxFailReminders /\ ReminderSweepFails(f)
  \/ sweeps < MaxFailSweeps /\ PenaltySweep
  \/ AutoLockSweep
  \/ Len(reminders) < MaxFailReminders /\ ReminderSweep
  \/ \E t \in FailInstants : Advance(t)

SpecFail == InitLedger /\ [][NextFail]_vars

\* --------------------------------------------- SpecDue: setup by due date
\* One account set up with a tenure or with a due date, on Dec 31 and 3.5
\* days after Jan 31, and one payment.
MaxDuePayments == 1       \* payments recorded in one behaviour of SpecDue
NegativeTenureRequest == Request(10000, 0, 0, -1)
DueRequests == {PlainRequest, ZeroTenureRequest, NegativeTenureRequest}
\* no due date; Dec 31, Dec 1, Jan 1, Jan 31 and Feb 15 as plain dates;
\* Feb 15 with a time, Feb 15 followed by T and text, text alone
DueDates ==
  {<<>>, <<DateToken(30)>>, <<DateToken(0)>>, <<DateToken(31)>>,
   <<DateToken(61)>>, <<DateToken(76)>>,
   <<DateToken(76), TToken, TimeToken>>,
   <<DateToken(76), TToken, TextToken>>,
   <<TextToken>>}
DueInstants == {64 * TicksPerDay + 1}

NextDue ==
  \/ \E c \in Clients, req \in DueRequests, due \in DueDates :
       SetupLoanDue(c, req, due)
  \/ \E c \in Clients, d \in PaymentDates :
       Len(payments) < MaxDuePayments /\ RecordPayment(c, 5000, d)
  \/ \E t \in DueInstants : Advance(t)

SpecDue == Init /\ [][NextDue]_vars

\* ------------------------------------- SpecRace: a payment during a sweep
\* Two accounts set up on Dec 31; 3.5 days after Jan 31 and later a penalty
\* sweep reads its list and writes account by account while payments are
\* recorded. Setups and the clock move only between sweeps.
MaxRacePayments == 1      \* payments recorded in one behaviour of SpecRace
MaxRaceSweeps == 2        \* penalty sweeps in one behaviour of SpecRace
RaceAmounts == {5000, 10000}
RaceInstants == {64 * TicksPerDay + 1, 93 * TicksPerDay}
Idle == \A c \in Clients : snapshot[c] = NoClient

NextRace ==
  \/ \E c \in Clients : Idle /\ SetupLoan(c, PlainRequest)
  \/ \E c \in Clients, a \in RaceAmounts, d \in PaymentDates :
       Len(payments) < MaxRacePayments /\ RecordPayment(c, a, d)
  \/ \E c \in Clients : PaymentUnlock(c)
  \/ sweeps < MaxRaceSweeps /\ PenaltyRead
  \/ \E c \in Clients : PenaltyWrite(c)
  \/ \E t \in RaceInstants : Idle /\ Advance(t)

SpecRace == InitLedger /\ [][NextRace]_vars

\* ------------------------------------------ SpecLock: the lock flag in time
\* One account with a loan set up on Dec 31, payments, the operator's lock
\* and unlock, and the three sweeps, on the due day Jan 31 and 3.5 and 4
\* days after it.
MaxLockPayments == 1      \* payments recorded in one behaviour of SpecLock
MaxLockSweeps == 2        \* penalty sweeps in one behaviour of SpecLock
MaxLockReminders == 2     \* reminders created in one behaviour of SpecLock
LockAmounts == {5000, 10000}
LockInstants == {61 * TicksPerDay, 64 * TicksPerDay + 1, 65 * TicksPerDay}

NextLock ==
  \/ \E c \in Clients : SetupLoan(c, PlainRequest)
  \/ \E c \in Clients, a \in LockAmounts, d \in PaymentDates :
       Len(payments) < MaxLockPayments /\ RecordPayment(c, a, d)
  \/ \E c \in Clients : PaymentUnlock(c)
  \/ \E c \in Clients : LockClient(c)
  \/ \E c \in Clients : UnlockClient(c)
  \/ sweeps < MaxLockSweeps /\ PenaltySweep
  \/ AutoLockSweep
  \/ Len(reminders) < MaxLockReminders /\ ReminderSweep
  \/ \E t \in LockInstants : Advance(t)

SpecLock == Init /\ [][NextLock]_vars

\* ------------------------------------- SpecCredit: codes against credits
\* One client, the admin with its 5 credits and the super admin, and two
\* generate-code requests that can be served at the same time.
MaxCodes == 6             \* codes a client has had when a request is accepted
NextCredit ==
  \/ \E p \in Requesters, a \in Admins, c \in Clients :
       /\ Exists(c) /\ clients[c].registration_code < MaxCodes
       /\ GenerateCodeCheck(p, a, c)
  \/ \E p \in Requesters : GenerateCodeWrite(p)
  \/ \E p \in Requesters : GenerateCodeCharge(p)

SpecCredit == Init /\ [][NextCredit]_vars

\* ------------------------------------------ SpecSchedule: the calculator
\* Requests for a schedule: interest-free loans of up to MaxMonths months and
\* loans at 10% a month of up to MaxRatedMonths months, by each method. A
\* principal of 0 and a tenure of 0 are turned away.
MaxMonths == 7            \* months of a schedule without interest
MaxRatedMonths == 3       \* months of a schedule with interest
SchedulePrincipals == {0, 1000, 1003, 10000}
ScheduleRates == {0, 120}
ScheduleMonths(rate) == IF rate = 0 THEN 0..MaxMonths ELSE 0..MaxRatedMonths

NextSchedule ==
  \E principal \in SchedulePrincipals, rate \in ScheduleRates,
     method \in Methods :
    \E months \in ScheduleMonths(rate) :
      /\ principal > 0 \/ months = 1
      /\ Amortization(principal, rate, months, method)

SpecSchedule == Init /\ [][NextSchedule]_vars

\* --------------------------------------- SpecLive: sweeps that keep coming
\* One account, its loan, one payment, the operator's lock, unlock and
\* settings, the auto-lock sweep and the clock, up to 4 days after Feb 28.
\* The clock keeps advancing and the auto-lock sweep keeps being run.
MaxLivePayments == 1      \* payments recorded in one behaviour of SpecLive
LiveAmounts == {5000, 10000}
LiveInstants == {64 * TicksPerDay + 1, 65 * TicksPerDay, 93 * TicksPerDay}
LiveGraceDays == {0, DefaultGraceDays}

NextLive ==
  \/ \E c \in Clients : SetupLoan(c, PlainRequest)
  \/ \E c \in Clients, a \in LiveAmounts, d \in PaymentDates :
       Len(payments) < MaxLivePayments /\ RecordPayment(c, a, d)
  \/ \E c \in Clients : PaymentUnlock(c)
  \/ \E c \in Clients : LockClient(c)
  \/ \E c \in Clients : UnlockClient(c)
  \/ \E c \in Clients, en \in BOOLEAN, g \in LiveGraceDays :
       UpdateLoanSettings(c, en, g)
  \/ AutoLockSweep
  \/ \E t \in LiveInstants : Advance(t)

SpecLive ==
  /\ Init
  /\ [][NextLive]_vars
  /\ WF_vars(AutoLockSweep)
  /\ WF_vars(\E t \in LiveInstants : Advance(t))

\* ------------------------------------- SpecPayRace: concurrent payments
\* One account with a loan of 100.00 and two payment requests that can be
\* served at the same time. A request is started on an account that has a
\* payment due.
MaxRaceEntries == 2       \* payments recorded in one behaviour of SpecPayRace
PayRaceAmounts == {2500, 10000}

NextPayRace ==
  \/ \E c \in Clients : SetupLoan(c, PlainRequest)
  \/ \E p \in Requesters, c \in Clients, a \in PayRaceAmounts :
       /\ Exists(c) /\ clients[c].next_payment_due # NoDate
       /\ Len(payments)
            + Cardinality({q \in Requesters : /\ paying[q] # NoRequest
                                              /\ paying[q].stage = "read"})
            < MaxRaceEntries
       /\ PaymentRead(p, c, a)
  \/ \E p \in Requesters : PaymentInsert(p)
  \/ \E p \in Requesters : PaymentWrite(p)
  \/ \E c \in Clients : PaymentUnlock(c)

SpecPayRace == Init /\ [][NextPayRace]_vars

\* ------------------------------- SpecLockRace: a payment during a lock sweep
\* Two accounts set up on Dec 31; 4 days after Jan 31 an auto-lock sweep
\* reads its list and writes account by account while payments are recorded.
\* Setups and the clock move only between sweeps.
MaxLockRacePayments == 1  \* payments recorded in one behaviour of SpecLockRace
LockRaceAmounts == {5000, 10000}
LockRaceInstants == {64 * TicksPerDay + 1, 65 * TicksPerDay}
NotLocking == \A c \in Clients : locking[c] = NoClient

NextLockRace ==
  \/ \E c \in Clients : NotLocking /\ SetupLoan(c, PlainRequest)
  \/ \E c \in Clients, a \in LockRaceAmounts, d \in PaymentDates :
       Len(payments) < MaxLockRacePayments /\ RecordPayment(c, a, d)
  \/ \E c \in Clients : PaymentUnlock(c)
  \/ AutoLockRead
  \/ \E c \in Clients : AutoLockWrite(c)
  \/ \E t \in LockRaceInstants : NotLocking /\ Advance(t)

SpecLockRace == InitLedger /\ [][NextLockRace]_vars

\* --------------------------------------- SpecGrace: any grace period
\* One account set up on Dec 31, the settings request with a grace period of
\* -2, 0 or 3 days, the auto-lock sweep and the clock: half a day before
\* Jan 31, Jan 31 and 3.5 days after it.
MaxGracePayments == 1     \* payments recorded in one behaviour of SpecGrace
AnyGraceDays == {-2, 0, DefaultGraceDays}
GraceInstants == {60 * TicksPerDay + 1, 61 * TicksPerDay, 64 * TicksPerDay + 1}

NextGrace ==
  \/ \E c \in Clients : SetupLoan(c, PlainRequest)
  \/ \E c \in Clients, d \in PaymentDates :
       Len(payments) < MaxGracePayments /\ RecordPayment(c, 5000, d)
  \/ \E c \in Clients, en \in BOOLEAN, g \in AnyGraceDays :
       UpdateLoanSettings(c, en, g)
  \/ \E c \in Clients : UnlockClient(c)
  \/ AutoLockSweep
  \/ \E t \in GraceInstants : Advance(t)

SpecGrace == Init /\ [][NextGrace]_vars

\* ===================================================================
\* Properties
\* ===================================================================
Doc(c) == clients[c]
Balance(c) == clients[c].total_paid + clients[c].outstanding_balance

\* the step is a record_payment for client c with the given amount
PayStep(c, amount) == payments' = Append(payments, Entry(c, amount))

\* ... that wrote the balances of the account
PayWrites(c, amount) ==
  /\ PayStep(c, amount)
  /\ clients'[c] # clients[c]

\* the step is a successful setup_loan for client c
SetupStep(c) ==
  /\ payments' = payments
  /\ Exists(c) /\ clients'[c] # NoClient
  /\ \/ clients'[c].total_amount_due # clients[c].total_amount_due
     \/ clients'[c].outstanding_balance # clients[c].outstanding_balance
     \/ clients'[c].next_payment_due # clients[c].next_payment_due

\* a successful setup_loan has stored loan terms on the account
Configured(c) == Exists(c) /\ Doc(c).loan_amount # 0

\* the account has a loan whose balance a payment has brought to 0
PaidOff(c) ==
  /\ Configured(c)
  /\ Doc(c).last_payment_date # NoDate
  /\ Doc(c).total_amount_due > 0
  /\ Doc(c).total_paid >= Doc(c).total_amount_due
  /\ Doc(c).outstanding_balance = 0

\* C1: a payment of a >= b on a configured account with
\* outstanding_balance = b > 0 stores outstanding_balance = 0 and
\* total_paid + a, and the handler ends with is_locked = false (in the routes
\* build by its second write).
C1_PayoffStep(c, a) ==
  /\ (PayStep(c, a) /\ Configured(c) /\ Doc(c).outstanding_balance > 0
        /\ a >= Doc(c).outstanding_balance)
     => /\ clients'[c].outstanding_balance = 0
        /\ clients'[c].total_paid = Doc(c).total_paid + a
        /\ \/ ~clients'[c].is_locked
           \/ unlocking'[c] = unlocking[c] + 1
  /\ (unlocking'[c] < unlocking[c] /\ clients'[c] # NoClient)
     => ~clients'[c].is_locked

C1_PayoffClamps ==
  [][\A c \in Clients, a \in PaymentAmounts : C1_PayoffStep(c, a)]_vars

C3_Step(c, a) ==
  /\ (SetupStep(c) /\ Doc(c).total_paid = 0)
     => Balance(c)' = clients'[c].total_amount_due
  /\ (PayWrites(c, a) /\ Configured(c) /\ Balance(c) = Doc(c).total_amount_due)
     => /\ clients'[c].total_amount_due = Doc(c).total_amount_due
        /\ clients'[c].total_paid = Doc(c).total_paid + a
        /\ Balance(c)' = Doc(c).total_amount_due
                         + Max(0, a - Doc(c).outstanding_balance)

C4_UnlockedWhenZero ==
  [][\A c \in Clients, a \in TimedAmounts :
       (PayWrites(c, a) /\ Doc(c).outstanding_balance > 0
          /\ clients'[c].outstanding_balance = 0)
         => ~clients'[c].is_locked]_vars

C6_DueAdvancesOneMonth ==
  [][\A c \in Clients, a \in PaymentAmounts :
       (PayStep(c, a) /\ a > 0 /\ Exists(c)
          /\ clients'[c].outstanding_balance > 0)
         => /\ Doc(c).next_payment_due # NoDate
            /\ clients'[c].next_payment_due
                 = AddOneMonth(Doc(c).next_payment_due)]_vars

C8_LedgerStep ==
  /\ \/ payments' = payments
     \/ \E c \in Clients, a \in LedgerAmounts :
          /\ Exists(c)
          /\ payments' = Append(payments, Entry(c, a))
     \/ \E c \in Clients :
          /\ Exists(c) /\ clients'[c] = NoClient
          /\ payments' = SelectSeq(payments, LAMBDA e : e.client_id # c)
  /\ \A c \in Clients :
       (Exists(c) /\ clients'[c] # NoClient
          /\ clients'[c].total_paid # Doc(c).total_paid)
         => payments' = Append(payments,
                          Entry(c, clients'[c].total_paid - Doc(c).total_paid))

C8_LedgerAppendOnly == [][C8_LedgerStep]_vars

\* C8 witness: one client is deleted, the entry of the other, a payment
\* beyond its whole loan, is still in the ledger
C8_Witness ==
  \E c \in Clients, o \in Clients :
    /\ c # o
    /\ ~Exists(o)
    /\ Configured(c)
    /\ Doc(c).outstanding_balance = 0
    /\ \E i \in 1..Len(payments) :
         /\ payments[i].client_id = c
         /\ payments[i].amount > Doc(c).total_amount_due

\* C9: an auto-lock sweep over an unlocked account with auto_lock_enabled
\* and a next_payment_due leaves it locked exactly if the days overdue it
\* stores exceed auto_lock_grace_days.
C9_LocksPastGrace ==
  [][last' = "autolock_sweep" =>
       \A c \in Clients :
         (Exists(c) /\ Doc(c).auto_lock_enabled
            /\ Doc(c).next_payment_due # NoDate /\ ~Doc(c).is_locked)
           => /\ clients'[c].days_overdue
                   = Max(0, DaysBetween(now, Doc(c).next_payment_due))
              /\ clients'[c].is_locked
                   <=> (clients'[c].days_overdue
                          > Doc(c).auto_lock_grace_days)]_vars

\* C9 witness: with 3 grace days the sweep has locked an account 4 days
\* overdue
C9_Witness ==
  \E c \in Clients :
    /\ last = "autolock_sweep"
    /\ Exists(c)
    /\ Doc(c).auto_lock_enabled
    /\ Doc(c).auto_lock_grace_days = 3
    /\ Doc(c).next_payment_due # NoDate
    /\ DaysBetween(now, Doc(c).next_payment_due) = 4
    /\ Doc(c).days_overdue = 4
    /\ Doc(c).is_locked

\* C10: a penalty sweep leaves late_fees_accumulated at what it was when the
\* current next_payment_due was stored plus the fee for the days overdue at
\* this run.
C10_FeeCountsDaysOnce ==
  [][last' = "penalty_sweep" =>
       \A c \in Clients :
         (penalty_selected(clients[c], now)
            /\ DaysBetween(now, Doc(c).next_payment_due) > 0)
           => clients'[c].late_fees_accumulated
                = fee_base[c]
                  + calculate_late_fee(Doc(c).monthly_emi, late_fee_rate(Doc(c)),
                      DaysBetween(now, Doc(c).next_payment_due))]_vars

\* C11: a penalty sweep writes nothing but late_fees_accumulated and
\* days_overdue, and writes those only on accounts whose next_payment_due is
\* in the past and whose outstanding_balance is above 0.
C11_Frame(c) ==
  /\ \A f \in DOMAIN Doc(c) \ {"late_fees_accumulated", "days_overdue"} :
       clients'[c][f] = Doc(c)[f]
  /\ ~(/\ Doc(c).next_payment_due # NoDate
       /\ Doc(c).next_payment_due < now
       /\ Doc(c).outstanding_balance > 0)
     => clients'[c] = Doc(c)

C11_PenaltyFrame ==
  [][last' = "penalty_sweep" =>
       \A c \in Clients :
         IF Exists(c) THEN clients'[c] # NoClient /\ C11_Frame(c)
         ELSE clients'[c] = NoClient]_vars

\* C11 witness: a sweep has charged one overdue account and has left alone
\* an account that is past its due date with nothing outstanding
C11_Witness ==
  \E c \in Clients, o \in Clients :
    /\ last = "penalty_sweep"
    /\ Exists(c) /\ Exists(o)
    /\ Doc(c).late_fees_accumulated > 0
    /\ Doc(c).days_overdue > 0
    /\ Doc(o).outstanding_balance = 0
    /\ Doc(o).next_payment_due # NoDate
    /\ Doc(o).next_payment_due < now
    /\ Doc(o).late_fees_accumulated = 0

\* the reminders of one client, in insertion order
OfClient(rs, c) == SelectSeq(rs, LAMBDA r : r.client_id = c)

\* the reminders of a type created for a client since its current due date
SinceDue(rs, c, type) ==
  {i \in 1..Len(rs) :
     /\ rs[i].client_id = c
     /\ rs[i].reminder_type = type
     /\ rs[i].scheduled_date >= Doc(c).next_payment_due}

\* C12: a reminder sweep over an account with reminders enabled, a balance
\* outstanding, days_until_due = -3 and no 3-days-overdue reminder of the
\* last 24 hours creates exactly one reminder for it, of the 3-days-overdue
\* type; and however many sweeps have run, the account has at most one
\* reminder of that type since its current next_payment_due.
C12_Sweep(c) ==
  /\ (/\ Doc(c).payment_reminders_enabled
      /\ Doc(c).outstanding_balance > 0
      /\ Doc(c).next_payment_due # NoDate
      /\ DaysBetween(Doc(c).next_payment_due, now) = -3
      /\ ~\E i \in 1..Len(reminders) :
            /\ reminders[i].client_id = c
            /\ reminders[i].reminder_type = "payment_overdue_3days"
            /\ now - reminders[i].scheduled_date <= TicksPerDay)
     => OfClient(reminders', c)
          = Append(OfClient(reminders, c),
                   Reminder(c, "payment_overdue_3days", now))
  /\ Doc(c).next_payment_due # NoDate
     => Cardinality(SinceDue(reminders', c, "payment_overdue_3days")) <= 1

C12_OneReminder ==
  [][last' = "reminder_sweep" =>
       \A c \in Clients : Exists(c) => C12_Sweep(c)]_vars

\* C12 witness: sweeps at two instants of the third day overdue, one
\* 3-days-overdue reminder
C12_Witness ==
  \E c \in Clients :
    /\ last = "reminder_sweep"
    /\ Exists(c)
    /\ Doc(c).next_payment_due # NoDate
    /\ DaysBetween(Doc(c).next_payment_due, now) = -3
    /\ Cardinality(SinceDue(reminders, c, "payment_overdue_3days")) = 1
    /\ \E i \in 1..Len(reminders) :
         /\ reminders[i].client_id = c
         /\ reminders[i].reminder_type = "payment_overdue_3days"
         /\ reminders[i].scheduled_date < now

\* C13: no two reminders have the same client, the same type and a
\* scheduled_date on the same calendar day.
C13_NoDuplicateReminder ==
  \A i \in 1..Len(reminders), j \in 1..Len(reminders) :
    (/\ i # j
     /\ reminders[i].client_id = reminders[j].client_id
     /\ reminders[i].reminder_type = reminders[j].reminder_type)
    => reminders[i].scheduled_date \div TicksPerDay
         # reminders[j].scheduled_date \div TicksPerDay

\* C14: a sweep in which the processing of one account raises still
\* processes every other account it selects: the penalty sweep charges it,
\* the auto-lock sweep locks it or stores its days overdue, the reminder
\* sweep creates the reminder it is due.
C14_Processed(c) ==
  /\ (last' = "penalty_sweep_cut" /\ penalty_selected(Doc(c), now))
     => clients'[c] = penalty_item(Doc(c), now)
  /\ (last' = "autolock_sweep_cut" /\ autolock_selected(Doc(c)))
     => clients'[c] = autolock_item(Doc(c), now)
  /\ (last' = "reminder_sweep_cut")
     => \A type \in reminder_due(Doc(c), now) :
          reminder_exists(reminders', c, type, now)

C14_FailSoft ==
  [][\A c \in Clients : (Exists(c) /\ c # failed') => C14_Processed(c)]_vars

\* C15: no record_payment with an amount <= 0 appends a ledger entry or
\* writes total_paid, outstanding_balance, next_payment_due,
\* last_payment_date or days_overdue of the account.
C15_Rejected(c, a) ==
  (a <= 0 /\ Exists(c))
    => /\ ~PayStep(c, a)
       /\ \A i \in 1..Len(payments') : payments'[i] # Entry(c, a)

C15_NonPositiveRejected ==
  [][\A c \in Clients, a \in PaymentAmounts : C15_Rejected(c, a)]_vars

\* C16: no setup_loan writes an account with loan_amount - down_payment <= 0
\* or with a negative interest_rate.
C16_PrincipalPositive ==
  [][\A c \in Clients :
       SetupStep(c)
         => /\ clients'[c].loan_amount - clients'[c].down_payment > 0
            /\ clients'[c].interest_rate >= 0]_vars

\* a due_date string that is a calendar date, alone or followed by T and a
\* time of day
WellFormed(due) ==
  /\ due # <<>>
  /\ due[1].kind = "date"
  /\ \/ Len(due) = 1
     \/ Len(due) = 3 /\ due[2].kind = "T" /\ due[3].kind = "time"

\* C17: every setup_loan that writes the account stores
\* loan_tenure_months >= 1, and stores 1 when it stores a new due date
\* that is not after the instant of the request.
C17_TenureAtLeastOne ==
  [][\A c \in Clients :
       SetupStep(c)
         => /\ clients'[c].loan_tenure_months >= 1
            /\ (/\ clients'[c].loan_due_date # Doc(c).loan_due_date
                /\ WellFormed(clients'[c].loan_due_date)
                /\ clients'[c].loan_due_date[1].day * TicksPerDay <= now)
               => clients'[c].loan_tenure_months = 1]_vars

Paid(doc, amount) ==
  IF impl = "routes"
  THEN Set(doc, payment_fields_routes(doc, amount, now))
  ELSE IF payment_raises_server(doc) THEN doc
       ELSE Set(doc, payment_fields_server(doc, amount, now))

\* the document after a whole penalty sweep has run on it
Swept(doc) == IF penalty_selected(doc, now) THEN penalty_item(doc, now) ELSE doc

\* the last payment of the ledger is c's and is the one change of the
\* account since the sweep read it
PaidSinceRead(c) ==
  /\ Exists(c) /\ snapshot[c] # NoClient
  /\ Len(payments) > 0
  /\ payments[Len(payments)].client_id = c
  /\ Doc(c) # snapshot[c]
  /\ Doc(c) = Paid(snapshot[c], payments[Len(payments)].amount)

\* C19: when a payment is recorded between the read and the write of a
\* penalty sweep on the same account, the account after the write is what
\* one of the two serial orders leaves: the payment then the whole sweep, or
\* the whole sweep then the payment.
C19_Serializable ==
  [][\A c \in Clients :
       (PaidSinceRead(c) /\ last' = "penalty_write" /\ snapshot'[c] = NoClient)
         => \/ clients'[c] = Swept(Doc(c))
            \/ clients'[c] = Paid(Swept(snapshot[c]),
                                  payments[Len(payments)].amount)]_vars

\* the loan terms of an account
Terms(doc) ==
  <<doc.loan_amount, doc.down_payment, doc.interest_rate,
    doc.loan_tenure_months, doc.monthly_emi, doc.total_amount_due>>

\* C20: the loan terms are written once: a setup_loan on an account that
\* already has a loan with a positive amount due leaves loan_amount, down_payment, interest_rate,
\* loan_tenure_months, monthly_emi and total_amount_due as they were.
C20_TermsImmutable ==
  [][\A c \in Clients :
       (Configured(c) /\ Doc(c).total_amount_due > 0 /\ SetupStep(c))
         => Terms(clients'[c]) = Terms(Doc(c))]_vars

\* the step is a whole run of one of the three sweeps
SweepStep == last' \in {"penalty_sweep", "autolock_sweep", "reminder_sweep"}

\* C21: no sweep changes is_locked from true to false: an account that is
\* locked before a penalty, auto-lock or reminder sweep is locked after it.
C21_SweepKeepsLock ==
  [][\A c \in Clients :
       (SweepStep /\ Exists(c) /\ Doc(c).is_locked)
         => clients'[c] # NoClient /\ clients'[c].is_locked]_vars

\* C21 witness: an auto-lock sweep has run over an account that the operator
\* locked and that is overdue within its grace days, with a balance
C21_Witness ==
  \E c \in Clients :
    /\ last = "autolock_sweep"
    /\ Exists(c)
    /\ Doc(c).is_locked
    /\ Doc(c).outstanding_balance > 0
    /\ Doc(c).auto_lock_enabled
    /\ Doc(c).days_overdue = 3
    /\ Doc(c).days_overdue <= Doc(c).auto_lock_grace_days

\* C22: a client is deleted only after allow-uninstall: every step that
\* removes a client record finds uninstall_allowed set on it; a delete
\* request on a record without it removes nothing.
C22_DeleteNeedsAllow ==
  [][\A c \in Clients :
       (Exists(c) /\ clients'[c] = NoClient) => Doc(c).uninstall_allowed]_vars

\* C23: the credits of an admin that is not a super admin are never below 0
C23_CreditsNonNegative ==
  \A a \in Admins : ~admins[a].is_super_admin => admins[a].credits >= 0

\* C24: the balance of the last row of every schedule that is answered is 0
\* within one cent
C24_ScheduleEndsAtZero ==
  schedule # NoSchedule
    => schedule.balance[schedule.months] <= 1

\* the due dates that lie more than the longest grace period before the
\* last instant of SpecLive: Jan 31 and Feb 28
LiveDues == {AddOneMonth(StartInstant), AddOneMonth(AddOneMonth(StartInstant))}

\* the account is one the auto-lock policy applies to, with payment due on d
Eligible(c, d) ==
  /\ Exists(c)
  /\ Doc(c).auto_lock_enabled
  /\ Doc(c).outstanding_balance > 0
  /\ Doc(c).next_payment_due = d

RECURSIVE LedgerSum(_, _)
LedgerSum(ledger, c) ==
  IF ledger = <<>> THEN 0
  ELSE (IF Head(ledger).client_id = c THEN Head(ledger).amount ELSE 0)
         + LedgerSum(Tail(ledger), c)

\* C26: whenever no record_payment call is in flight, the total_paid of
\* every account is the sum of the amounts of its ledger entries.
C26_TotalPaidIsLedgerSum ==
  (\A p \in Requesters : paying[p] = NoRequest)
    => \A c \in Clients :
         Exists(c) => Doc(c).total_paid = LedgerSum(payments, c)

\* C27: when the auto-lock sweep writes an account that it read with a
\* balance and that a payment, now completed, has paid off since, the
\* account is left with outstanding_balance 0 and is_locked false.
C27_PaidOffStaysUnlocked ==
  [][\A c \in Clients :
       (/\ locking[c] # NoClient /\ locking'[c] = NoClient
        /\ last' = "autolock_write"
        /\ Exists(c)
        /\ locking[c].outstanding_balance > 0
        /\ Doc(c).outstanding_balance = 0
        /\ Doc(c).total_paid > locking[c].total_paid
        /\ unlocking[c] = 0)
         => /\ clients'[c].outstanding_balance = 0
            /\ ~clients'[c].is_locked]_vars

\* C28: whatever grace period is stored, an auto-lock sweep locks only
\* accounts whose next_payment_due is in the past and stores no negative
\* days_overdue.
C28_LocksOnlyPastDue ==
  [][\A c \in Clients :
       (last' = "autolock_sweep" /\ Exists(c) /\ autolock_selected(Doc(c)))
         => /\ (~Doc(c).is_locked /\ clients'[c].is_locked)
                 => Doc(c).next_payment_due < now
            /\ clients'[c].days_overdue >= 0]_vars

\* the operator has unlocked the account, no payment has been recorded since,
\* and it is overdue by more than its grace days
Overridden(c) ==
  /\ Exists(c)
  /\ released[c]
  /\ Doc(c).auto_lock_enabled
  /\ Doc(c).next_payment_due # NoDate
  /\ DaysBetween(now, Doc(c).next_payment_due) > Doc(c).auto_lock_grace_days

\* C29: an operator unlock does not persist against policy: an account with
\* auto_lock_enabled that is overdue by more than its grace days and that an
\* operator has unlocked without a payment is locked again by the next
\* auto-lock sweep.
C29_UnlockDoesNotPersist ==
  [][\A c \in Clients :
       (last' = "autolock_sweep" /\ Overridden(c) /\ ~Doc(c).is_locked)
         => clients'[c].is_locked]_vars

\* C29 witness: an auto-lock sweep has just run over an account that the
\* operator had unlocked while it was 4 days overdue with 3 grace days, and
\* the account is locked again
C29_Witness ==
  \E c \in Clients :
    /\ last = "autolock_sweep"
    /\ Overridden(c)
    /\ Doc(c).is_locked
    /\ Doc(c).days_overdue = 4
    /\ Doc(c).auto_lock_grace_days = DefaultGraceDays
    /\ ~\E i \in 1..Len(payments) : payments[i].client_id = c

\* the N of the overdue reminder types
OverdueDays ==
  [payment_overdue_1day  |-> 1,
   payment_overdue_3days |-> 3,
   payment_overdue_7days |-> 7]

\* C30: the reminder thresholds agree with the overdue counter: whenever a
\* reminder sweep creates an overdue reminder of N days (N in {1, 3, 7}) for
\* an account, the days_overdue that the penalty and auto-lock sweeps compute
\* for that account at the same instant is N.
C30_ReminderAgreesWithCounter ==
  [][last' = "reminder_sweep" =>
       \A i \in (Len(reminders) + 1)..Len(reminders') :
         reminders'[i].reminder_type \in DOMAIN OverdueDays
           => DaysBetween(now, Doc(reminders'[i].client_id).next_payment_due)
                = OverdueDays[reminders'[i].reminder_type]]_vars

============================================================================
